---- MODULE Spec2Model ----
(***************************************************************************)
(* Model of m_save_output.py: script_main walks a device list, connects to *)
(* every device (directly or through a jump box), runs per_device_work and *)
(* records failures in a shared log file.                                  *)
(*                                                                         *)
(* The session, settings and script objects live in the securecrt_tools    *)
(* package; their effect on the connection is modelled from the            *)
(* specification's collaborator contracts, and every session call made in  *)
(* the device loop may return or raise one of the two recognised errors.   *)
(***************************************************************************)
EXTENDS Integers, Sequences, FiniteSets, TLC

\* Longest device list the operator's CSV holds.
MaxDevices == 2

\* Longest device list of the runs that vary every stored jump-box setting.
SettingsDevices == 1

VARIABLES
    pc,             \* position in script_main / per_device_work
    exc,            \* exception in flight or raised out of script_main
    session,        \* the main session: [connected, jump, device]
    settings,       \* the persisted settings store, section "Global"
    device_list,    \* result of script.import_device_list()
    send_cmd,       \* command entered by the operator
    use_jumpbox,    \* locals of script_main
    jumpbox,
    j_username,
    j_password,
    j_ending,
    jump_connected,
    idx,            \* position of the current device in device_list (0: none yet)
    calls,          \* every session call made in the loop: [op, dev, res]
    prompts,        \* every prompt window shown, in order
    updates,        \* every settings.update made, in order: [key, value]
    logfile,        \* lines appended to the failure log: [kind, dev]
    outfiles        \* devices whose write_output_to_file returned, in order

vars == <<pc, exc, session, settings, device_list, send_cmd, use_jumpbox,
          jumpbox, j_username, j_password, j_ending, jump_connected, idx,
          calls, prompts, updates, logfile, outfiles>>

----------------------------------------------------------------------------
\* Values

\* Protocol column of a device record, as a string of characters.
Protocols ==
    { <<"S", "S", "H", "2">>,
      <<"T", "e", "l", "n", "e", "t">>,
      <<"r", "l", "o", "g", "i", "n">> }

\* Device lists import_device_list can return (hostname = position in list).
DeviceLists ==
    UNION { [1..n -> Protocols] : n \in 0..MaxDevices }

ShortDeviceLists ==
    UNION { [1..n -> Protocols] : n \in 0..SettingsDevices }

\* What the operator may type into the command prompt.
Commands == {"", "show version"}

\* The two error kinds of the sessions module.
Errors == {"ConnectError", "InteractionError"}

Results == {"ok"} \cup Errors

\* Stored jump-box settings: everything present, or nothing stored yet.
StoredProfiles ==
    { [jumpbox_host |-> "jb", jumpbox_user |-> "admin", jumpbox_prompt_end |-> "#"],
      [jumpbox_host |-> "", jumpbox_user |-> "", jumpbox_prompt_end |-> ""] }

SettingsStores ==
    { [use_jumpbox |-> u, jumpbox_host |-> p.jumpbox_host,
       jumpbox_user |-> p.jumpbox_user,
       jumpbox_prompt_end |-> p.jumpbox_prompt_end] :
         u \in BOOLEAN, p \in StoredProfiles }

\* Stored jump-box settings with every key present or missing on its own.
MixedSettingsStores ==
    [use_jumpbox : BOOLEAN, jumpbox_host : {"", "jb"},
     jumpbox_user : {"", "admin"}, jumpbox_prompt_end : {"", "#"}]

\* Operator's answers to the jump-box prompts.
HostAnswers == {"jb2"}
UserAnswers == {"oper"}
PasswordAnswers == {"secret"}
EndingAnswers == {">"}

Disconnected == [connected |-> FALSE, jump |-> FALSE, device |-> 0]

\* A tab the operator had connected before launching the script.
PreConnected == [connected |-> TRUE, jump |-> FALSE, device |-> 0]

----------------------------------------------------------------------------
\* str.lower() on the characters that occur in a protocol value.
LowerChar(c) ==
    CASE c = "S" -> "s"
      [] c = "H" -> "h"
      [] c = "T" -> "t"
      [] OTHER -> c

lower(s) == [i \in 1..Len(s) |-> LowerChar(s[i])]

\* "ssh" in protocol.lower()
ContainsSsh(p) ==
    \E i \in 1..Len(p) :
        /\ i + 2 <= Len(p)
        /\ SubSeq(lower(p), i, i + 2) = <<"s", "s", "h">>

\* protocol.lower() == "telnet"
IsTelnet(p) == lower(p) = <<"t", "e", "l", "n", "e", "t">>

\* session.is_connected()
is_connected(s) == s.connected

\* Effect of a session call on the connection, when it returns normally.
SessionEffect(op, d, s) ==
    CASE op = "connect" ->
             [connected |-> TRUE, jump |-> FALSE, device |-> d]
      [] op = "connect_ssh" ->
             [connected |-> TRUE, jump |-> TRUE, device |-> 0]
      [] op \in {"ssh_via_jump", "telnet_via_jump"} ->
             [s EXCEPT !.device = d]
      [] op = "disconnect_via_jump" ->
             [s EXCEPT !.device = 0]
      [] op = "disconnect" -> Disconnected
      [] OTHER -> s

\* A session call: it returns (and takes effect) or raises (and changes nothing).
SessionAfter(op, d, res, s) ==
    IF res = "ok" THEN SessionEffect(op, d, s) ELSE s

CallRecord(op, d, res) == [op |-> op, dev |-> d, res |-> res]

----------------------------------------------------------------------------
InitWith(stores) ==
    /\ pc = "start"
    /\ exc = "none"
    /\ session \in {Disconnected, PreConnected}
    /\ settings \in stores
    /\ device_list = <<>>
    /\ send_cmd = "unset"
    /\ use_jumpbox = FALSE
    /\ jumpbox = "unset"
    /\ j_username = "unset"
    /\ j_password = "unset"
    /\ j_ending = "unset"
    /\ jump_connected = FALSE
    /\ idx = 0
    /\ calls = <<>>
    /\ prompts = <<>>
    /\ updates = <<>>
    /\ logfile = <<>>
    /\ outfiles = <<>>

Init == InitWith(SettingsStores)

InitSettings == InitWith(MixedSettingsStores)

----------------------------------------------------------------------------
\* Decisions taken by script_main

\* A jump-box section that prompts for and rewrites every setting.
MissingAlways(v) == TRUE

\* Lines 72, 76, 82: "if not <value>" on a value read from the settings.
Missing(v) == v = ""

\* The connected-tab check left out.
AfterCheckNoGuard(s) == "import"

\* Lines 48-50: where the run goes after the connected-tab check.
AfterCheck(s) == IF is_connected(s) THEN "raised" ELSE "import"

\* Lines 54-55: an empty device list returns.
AfterImport(dl) == IF dl = <<>> THEN "done" ELSE "prompt_cmd"

\* The empty-command return left out.
AfterCommandNoReturn(c) == "jumpbox_section"

\* Lines 60-61: an empty command returns.
AfterCommand(c) == IF c = "" THEN "done" ELSE "jumpbox_section"

\* A loop that takes the devices from the end of the list.
DeviceAtReversed(n, len) == len - n + 1

\* Line 95: the device the n-th pass of the for loop works on.
DeviceAt(n, len) == n

\* Lines 102-131: the branch taken for a device with protocol p.
Branch(uj, p) ==
    IF uj
       THEN IF ContainsSsh(p) THEN "jump_connect"
            ELSE IF IsTelnet(p) THEN "jump_connect"
            ELSE "for"
       ELSE "direct_connect"

\* A telnet branch copied from the ssh branch with its tunnel call unchanged.
TunnelOpAlwaysSsh(p) == "ssh_via_jump"

\* Lines 109 and 122: the tunnel call of the branch taken for protocol p.
TunnelOp(p) == IF ContainsSsh(p) THEN "ssh_via_jump" ELSE "telnet_via_jump"

\* A loop that connects to the jump box for every device.
NeedsJumpConnectAlways(jc) == TRUE

\* Lines 106 and 119: the jump box is connected only when the flag is down.
NeedsJumpConnect(jc) == ~jc

\* A handler that forgets to lower the flag.
JumpFlagAfterHandlerKept(jc) == jc

\* Lines 116 and 129: the flag after the handler's full disconnect.
JumpFlagAfterHandler(jc) == FALSE

\* A work unit that derives the file name but never writes the output.
AfterStepNoWrite(op, uj) ==
    CASE op = "start_cisco_session" -> "create_output_filename"
      [] op = "create_output_filename" -> "end_cisco_session"
      [] op = "write_output_to_file" -> "end_cisco_session"
      [] op = "end_cisco_session" ->
             IF uj THEN "disconnect_via_jump" ELSE "direct_disconnect"

\* A work unit that ends the cisco session before it writes the output.
AfterStepEndBeforeWrite(op, uj) ==
    CASE op = "start_cisco_session" -> "create_output_filename"
      [] op = "create_output_filename" -> "end_cisco_session"
      [] op = "end_cisco_session" -> "write_output_to_file"
      [] op = "write_output_to_file" ->
             IF uj THEN "disconnect_via_jump" ELSE "direct_disconnect"

\* Lines 159-168: what follows each step of per_device_work.
AfterStep(op, uj) ==
    CASE op = "start_cisco_session" -> "create_output_filename"
      [] op = "create_output_filename" -> "write_output_to_file"
      [] op = "write_output_to_file" -> "end_cisco_session"
      [] op = "end_cisco_session" ->
             IF uj THEN "disconnect_via_jump" ELSE "direct_disconnect"

\* Lines 112, 125, 136, 139: the handler an exception of the try body reaches.
Handler(uj) == IF uj THEN "jump_except" ELSE "direct_except"

\* A direct-mode handler that drops a ConnectError without a log line.
LogLinesConnectSilent(uj, e, d) ==
    IF uj
       THEN << [kind |-> "Connect to failed", dev |-> d] >>
       ELSE IF e = "ConnectError"
               THEN << >>
               ELSE << [kind |-> "Failure on", dev |-> d] >>

\* Direct-mode handlers in which a ConnectError also reaches the second write.
LogLinesDouble(uj, e, d) ==
    IF uj
       THEN << [kind |-> "Connect to failed", dev |-> d] >>
       ELSE IF e = "ConnectError"
               THEN << [kind |-> "Connect to failed", dev |-> d],
                       [kind |-> "Failure on", dev |-> d] >>
               ELSE << [kind |-> "Failure on", dev |-> d] >>

\* Lines 113-114, 126-127, 137-138, 140-141: what the handler appends to the
\* failure log for exception e on device d.
LogLines(uj, e, d) ==
    IF uj \/ e = "ConnectError"
       THEN << [kind |-> "Connect to failed", dev |-> d] >>
       ELSE << [kind |-> "Failure on", dev |-> d] >>

\* The device of the current pass of the loop.
cur == DeviceAt(idx, Len(device_list))

----------------------------------------------------------------------------
\* Lines 44-50: refuse to run in a connected tab.
CheckConnected ==
    /\ pc = "start"
    /\ pc' = AfterCheck(session)
    /\ exc' = IF pc' = "raised" THEN "ScriptError" ELSE exc
    /\ UNCHANGED <<session, settings, device_list, send_cmd, use_jumpbox,
                   jumpbox, j_username, j_password, j_ending, jump_connected,
                   idx, calls, prompts, updates, logfile, outfiles>>

\* Lines 53-55: load the device list; an empty list ends the run.
ImportFrom(lists) ==
    /\ pc = "import"
    /\ \E dl \in lists :
          /\ device_list' = dl
          /\ pc' = AfterImport(dl)
    /\ UNCHANGED <<exc, session, settings, send_cmd, use_jumpbox, jumpbox,
                   j_username, j_password, j_ending, jump_connected, idx,
                   calls, prompts, updates, logfile, outfiles>>

ImportDeviceList == ImportFrom(DeviceLists)

ImportShortDeviceList == ImportFrom(ShortDeviceLists)

\* Lines 57-61: ask for the command; an empty command ends the run.
PromptCommand ==
    /\ pc = "prompt_cmd"
    /\ \E c \in Commands :
          /\ send_cmd' = c
          /\ pc' = AfterCommand(c)
    /\ prompts' = Append(prompts, "command")
    /\ UNCHANGED <<exc, session, settings, device_list, use_jumpbox, jumpbox,
                   j_username, j_password, j_ending, jump_connected, idx,
                   calls, updates, logfile, outfiles>>

\* Lines 65-84: read the jump-box settings, prompt for what is missing and
\* store the answers; the password is always prompted.
JumpBoxSection ==
    /\ pc = "jumpbox_section"
    /\ use_jumpbox' = settings.use_jumpbox
    /\ IF settings.use_jumpbox
          THEN \E h \in HostAnswers, u \in UserAnswers,
                  pw \in PasswordAnswers, e \in EndingAnswers :
                 LET noHost == Missing(settings.jumpbox_host)
                     noUser == Missing(settings.jumpbox_user)
                     noEnd  == Missing(settings.jumpbox_prompt_end)
                 IN
                 /\ jumpbox' = IF noHost THEN h ELSE settings.jumpbox_host
                 /\ j_username' = IF noUser THEN u ELSE settings.jumpbox_user
                 /\ j_password' = pw
                 /\ j_ending' = IF noEnd THEN e ELSE settings.jumpbox_prompt_end
                 /\ prompts' = prompts
                        \o (IF noHost THEN <<"jumpbox_host">> ELSE <<>>)
                        \o (IF noUser THEN <<"jumpbox_user">> ELSE <<>>)
                        \o <<"jumpbox_password">>
                        \o (IF noEnd THEN <<"jumpbox_prompt_end">> ELSE <<>>)
                 /\ updates' = updates
                        \o (IF noHost THEN <<[key |-> "jumpbox_host", value |-> h]>> ELSE <<>>)
                        \o (IF noUser THEN <<[key |-> "jumpbox_user", value |-> u]>> ELSE <<>>)
                        \o (IF noEnd THEN <<[key |-> "jumpbox_prompt_end", value |-> e]>> ELSE <<>>)
                 /\ settings' =
                        [settings EXCEPT
                            !.jumpbox_host = IF noHost THEN h ELSE @,
                            !.jumpbox_user = IF noUser THEN u ELSE @,
                            !.jumpbox_prompt_end = IF noEnd THEN e ELSE @]
          ELSE UNCHANGED <<jumpbox, j_username, j_password, j_ending,
                           prompts, updates, settings>>
    /\ pc' = "loop_init"
    /\ UNCHANGED <<exc, session, device_list, send_cmd, jump_connected, idx,
                   calls, logfile, outfiles>>

\* Lines 91-93: the flag starts down; the failure log gets its name.
LoopInit ==
    /\ pc = "loop_init"
    /\ jump_connected' = FALSE
    /\ idx' = 0
    /\ pc' = "for"
    /\ UNCHANGED <<exc, session, settings, device_list, send_cmd, use_jumpbox,
                   jumpbox, j_username, j_password, j_ending, calls, prompts,
                   updates, logfile, outfiles>>

\* Lines 95-104, 117, 130: fetch the next device and pick its branch, or
\* leave the loop when the list is exhausted.
ForNext ==
    /\ pc = "for"
    /\ IF idx = Len(device_list)
          THEN /\ pc' = "after_loop"
               /\ idx' = idx
          ELSE /\ idx' = idx + 1
               /\ pc' = Branch(use_jumpbox,
                               device_list[DeviceAt(idx + 1, Len(device_list))])
    /\ UNCHANGED <<exc, session, settings, device_list, send_cmd, use_jumpbox,
                   jumpbox, j_username, j_password, j_ending, jump_connected,
                   calls, prompts, updates, logfile, outfiles>>

\* A session call inside a try body: op on the current device returns and
\* control goes to next, or it raises and control goes to the handler.
TryCall(op, next) ==
    \E res \in Results :
       /\ calls' = Append(calls, CallRecord(op, cur, res))
       /\ session' = SessionAfter(op, cur, res, session)
       /\ IF res = "ok"
             THEN /\ pc' = next
                  /\ exc' = exc
             ELSE /\ pc' = Handler(use_jumpbox)
                  /\ exc' = res

\* Lines 106-108, 119-121: connect to the jump box unless it is already up.
JumpConnect ==
    /\ pc = "jump_connect"
    /\ IF NeedsJumpConnect(jump_connected)
          THEN /\ TryCall("connect_ssh", "tunnel")
               /\ jump_connected' = (pc' = "tunnel")
          ELSE /\ pc' = "tunnel"
               /\ UNCHANGED <<calls, session, exc, jump_connected>>
    /\ UNCHANGED <<settings, device_list, send_cmd, use_jumpbox, jumpbox,
                   j_username, j_password, j_ending, idx, prompts, updates,
                   logfile, outfiles>>

\* Lines 109, 122: tunnel from the jump box to the device.
Tunnel ==
    /\ pc = "tunnel"
    /\ TryCall(TunnelOp(device_list[cur]), "start_cisco_session")
    /\ UNCHANGED <<settings, device_list, send_cmd, use_jumpbox, jumpbox,
                   j_username, j_password, j_ending, jump_connected, idx,
                   prompts, updates, logfile, outfiles>>

\* Line 133: connect straight to the device.
DirectConnect ==
    /\ pc = "direct_connect"
    /\ TryCall("connect", "start_cisco_session")
    /\ UNCHANGED <<settings, device_list, send_cmd, use_jumpbox, jumpbox,
                   j_username, j_password, j_ending, jump_connected, idx,
                   prompts, updates, logfile, outfiles>>

\* Line 159
StartCiscoSession ==
    /\ pc = "start_cisco_session"
    /\ TryCall("start_cisco_session", AfterStep("start_cisco_session", use_jumpbox))
    /\ UNCHANGED <<settings, device_list, send_cmd, use_jumpbox, jumpbox,
                   j_username, j_password, j_ending, jump_connected, idx,
                   prompts, updates, logfile, outfiles>>

\* Line 162: the file name is derived from the command; nothing is sent.
CreateOutputFilename ==
    /\ pc = "create_output_filename"
    /\ calls' = Append(calls, CallRecord("create_output_filename", cur, "ok"))
    /\ pc' = AfterStep("create_output_filename", use_jumpbox)
    /\ UNCHANGED <<exc, session, settings, device_list, send_cmd, use_jumpbox,
                   jumpbox, j_username, j_password, j_ending, jump_connected,
                   idx, prompts, updates, logfile, outfiles>>

\* Line 165: the output file exists once the call has returned.
WriteOutputToFile ==
    /\ pc = "write_output_to_file"
    /\ TryCall("write_output_to_file", AfterStep("write_output_to_file", use_jumpbox))
    /\ outfiles' = IF pc' = Handler(use_jumpbox)
                      THEN outfiles ELSE Append(outfiles, cur)
    /\ UNCHANGED <<settings, device_list, send_cmd, use_jumpbox, jumpbox,
                   j_username, j_password, j_ending, jump_connected, idx,
                   prompts, updates, logfile>>

\* Line 168
EndCiscoSession ==
    /\ pc = "end_cisco_session"
    /\ TryCall("end_cisco_session", AfterStep("end_cisco_session", use_jumpbox))
    /\ UNCHANGED <<settings, device_list, send_cmd, use_jumpbox, jumpbox,
                   j_username, j_password, j_ending, jump_connected, idx,
                   prompts, updates, logfile, outfiles>>

\* Lines 111, 124: leave the device, keep the jump box.
DisconnectViaJump ==
    /\ pc = "disconnect_via_jump"
    /\ TryCall("disconnect_via_jump", "for")
    /\ UNCHANGED <<settings, device_list, send_cmd, use_jumpbox, jumpbox,
                   j_username, j_password, j_ending, jump_connected, idx,
                   prompts, updates, logfile, outfiles>>

\* Line 135
DirectDisconnect ==
    /\ pc = "direct_disconnect"
    /\ TryCall("disconnect", "for")
    /\ UNCHANGED <<settings, device_list, send_cmd, use_jumpbox, jumpbox,
                   j_username, j_password, j_ending, jump_connected, idx,
                   prompts, updates, logfile, outfiles>>

\* Lines 112-116, 125-129: log the failure, disconnect everything, lower the
\* flag.  The disconnect is outside any try: if it raises, script_main ends.
JumpExcept ==
    /\ pc = "jump_except"
    /\ logfile' = logfile \o LogLines(TRUE, exc, cur)
    /\ \E res \in Results :
          /\ calls' = Append(calls, CallRecord("disconnect", cur, res))
          /\ session' = SessionAfter("disconnect", cur, res, session)
          /\ IF res = "ok"
                THEN /\ jump_connected' = JumpFlagAfterHandler(jump_connected)
                     /\ exc' = "none"
                     /\ pc' = "for"
                ELSE /\ jump_connected' = jump_connected
                     /\ exc' = res
                     /\ pc' = "raised"
    /\ UNCHANGED <<settings, device_list, send_cmd, use_jumpbox, jumpbox,
                   j_username, j_password, j_ending, idx, prompts, updates,
                   outfiles>>

\* Lines 136-141: log the failure; the session is not touched.
DirectExcept ==
    /\ pc = "direct_except"
    /\ logfile' = logfile \o LogLines(FALSE, exc, cur)
    /\ exc' = "none"
    /\ pc' = "for"
    /\ UNCHANGED <<session, settings, device_list, send_cmd, use_jumpbox,
                   jumpbox, j_username, j_password, j_ending, jump_connected,
                   idx, calls, prompts, updates, outfiles>>

\* Lines 144-145: drop the jump box if the flag is still up.  The call is
\* outside any try and belongs to no device (dev = 0).
AfterLoop ==
    /\ pc = "after_loop"
    /\ IF jump_connected
          THEN \E res \in Results :
                 /\ calls' = Append(calls, CallRecord("disconnect", 0, res))
                 /\ session' = SessionAfter("disconnect", 0, res, session)
                 /\ IF res = "ok"
                       THEN /\ pc' = "done"
                            /\ exc' = exc
                       ELSE /\ pc' = "raised"
                            /\ exc' = res
          ELSE /\ pc' = "done"
               /\ UNCHANGED <<calls, session, exc>>
    /\ UNCHANGED <<settings, device_list, send_cmd, use_jumpbox, jumpbox,
                   j_username, j_password, j_ending, jump_connected, idx,
                   prompts, updates, logfile, outfiles>>

Next ==
    \/ CheckConnected
    \/ ImportDeviceList
    \/ PromptCommand
    \/ JumpBoxSection
    \/ LoopInit
    \/ ForNext
    \/ JumpConnect
    \/ Tunnel
    \/ DirectConnect
    \/ StartCiscoSession
    \/ CreateOutputFilename
    \/ WriteOutputToFile
    \/ EndCiscoSession
    \/ DisconnectViaJump
    \/ DirectDisconnect
    \/ JumpExcept
    \/ DirectExcept
    \/ AfterLoop

Spec == Init /\ [][Next]_vars

\* The same run with every stored jump-box setting present or missing on
\* its own, over short device lists.
NextSettings ==
    \/ CheckConnected
    \/ ImportShortDeviceList
    \/ PromptCommand
    \/ JumpBoxSection
    \/ LoopInit
    \/ ForNext
    \/ JumpConnect
    \/ Tunnel
    \/ DirectConnect
    \/ StartCiscoSession
    \/ CreateOutputFilename
    \/ WriteOutputToFile
    \/ EndCiscoSession
    \/ DisconnectViaJump
    \/ DirectDisconnect
    \/ JumpExcept
    \/ DirectExcept
    \/ AfterLoop

SpecSettings == InitSettings /\ [][NextSettings]_vars

----------------------------------------------------------------------------
\* Reading the history

Devices == 1..Len(device_list)

HasCall(op, d, res) ==
    \E k \in 1..Len(calls) : calls[k] = CallRecord(op, d, res)

Called(op, d) == \E res \in Results : HasCall(op, d, res)

CallCount(op, d) ==
    Cardinality({k \in 1..Len(calls) : calls[k].op = op /\ calls[k].dev = d})

LogCount(d) == Cardinality({k \in 1..Len(logfile) : logfile[k].dev = d})

FileCount(d) == Cardinality({k \in 1..Len(outfiles) : outfiles[k] = d})

ConnectOps == {"connect", "connect_ssh", "ssh_via_jump", "telnet_via_jump"}

TunnelOps == {"ssh_via_jump", "telnet_via_jump"}

\* The connection to device d was established.
ConnSucceeded(d) ==
    \E op \in {"connect"} \cup TunnelOps : HasCall(op, d, "ok")

\* The connection to device d failed with a ConnectError.
ConnFailed(d) == \E op \in ConnectOps : HasCall(op, d, "ConnectError")

\* A call of the try body of device d raised.
Failed(d) ==
    \E k \in 1..Len(calls) :
        /\ calls[k].dev = d
        /\ calls[k].res \in Errors
        /\ ~(use_jumpbox /\ calls[k].op = "disconnect")

\* The exception of device d is still on its way through the handler.
InHandler(d) == pc \in {"jump_except", "direct_except"} /\ idx = d

\* The pass of the loop for device d is over.
PassOver(d) ==
    \/ d < idx
    \/ d = idx /\ pc \in {"for", "after_loop", "done", "raised"}

\* Device d takes one of the two jump branches.
Routed(d) == use_jumpbox /\ (ContainsSsh(device_list[d]) \/ IsTelnet(device_list[d]))

\* The last jump-routed device at or before position n (0: none).
LastRouted(n) ==
    LET S == {d \in Devices : d <= n /\ Routed(d)}
    IN IF S = {} THEN 0 ELSE CHOOSE d \in S : \A e \in S : e <= d

\* The try body of jump-routed device d ran to its end.
Succeeded(d) == HasCall("disconnect_via_jump", d, "ok")

\* The first session call made for device d.
FirstCall(d) ==
    LET S == {k \in 1..Len(calls) : calls[k].dev = d}
    IN calls[CHOOSE k \in S : \A j \in S : k <= j]

----------------------------------------------------------------------------
\* C1 as stated: at the end of the run every device whose connection
\* succeeded has exactly one output file, whatever the work steps did.
C1_FileForEveryConnectedDevice ==
    pc = "done" =>
        \A d \in Devices : ConnSucceeded(d) => FileCount(d) = 1

\* C1 as amended: once the pass of a device is over, a device whose
\* connection succeeded and whose start_cisco_session and
\* write_output_to_file raised nothing has exactly one output file, whatever
\* end_cisco_session and the disconnect calls did; a device whose
\* start_cisco_session or write_output_to_file raised has none; no device
\* ever has more than one.
C1_FileWhenWriteReturns ==
    \A d \in Devices :
        LET workRaised ==
                \E e \in Errors :
                    \/ HasCall("start_cisco_session", d, e)
                    \/ HasCall("write_output_to_file", d, e)
        IN /\ FileCount(d) <= 1
           /\ (PassOver(d) /\ ConnSucceeded(d) /\ ~workRaised) => FileCount(d) = 1
           /\ workRaised => FileCount(d) = 0

C1_Witness ==
    /\ pc = "done"
    /\ \E d \in Devices :
          /\ ConnSucceeded(d)
          /\ HasCall("end_cisco_session", d, "InteractionError")
          /\ FileCount(d) = 1
    /\ \E d \in Devices :
          /\ ConnSucceeded(d)
          /\ HasCall("start_cisco_session", d, "InteractionError")
          /\ FileCount(d) = 0

\* C2: a device whose connection failed with a ConnectError has exactly one
\* line in the failure log once its handler has run, never more than one,
\* and write_output_to_file is never called for it.
C2_ConnectFailureLoggedOnce ==
    \A d \in Devices :
        ConnFailed(d) =>
            /\ ~Called("write_output_to_file", d)
            /\ FileCount(d) = 0
            /\ LogCount(d) <= 1
            /\ ~InHandler(d) => LogCount(d) = 1

C2_Witness ==
    /\ pc = "done"
    /\ use_jumpbox
    /\ \E d \in Devices :
          /\ HasCall("ssh_via_jump", d, "ConnectError")
          /\ LogCount(d) = 1
    /\ \E d \in Devices :
          /\ HasCall("connect_ssh", d, "ConnectError")
          /\ LogCount(d) = 1

\* C3 as stated: when script_main returns normally the session is connected
\* neither to a device nor to the jump box.
C3_NoSessionLeftOpen ==
    pc = "done" => session = Disconnected

\* C4: in jump mode a device whose try body ran to its end called connect_ssh
\* once if it opens a run of successes and not at all if the jump-routed
\* device before it succeeded too; no full disconnect is made for it; and
\* until the next jump-routed device starts the flag and the jump session
\* stay up.
C4_JumpSessionReused ==
    use_jumpbox =>
        /\ \A d \in Devices :
              Succeeded(d) =>
                  /\ CallCount("connect_ssh", d) =
                         IF LastRouted(d - 1) # 0 /\ Succeeded(LastRouted(d - 1))
                            THEN 0 ELSE 1
                  /\ ~Called("disconnect", d)
                  /\ calls[Len(calls)].dev = d =>
                         calls[Len(calls)].op = "disconnect_via_jump"
        /\ (pc \in {"for", "after_loop"} /\ LastRouted(idx) # 0
               /\ Succeeded(LastRouted(idx))) =>
              /\ jump_connected
              /\ session = [connected |-> TRUE, jump |-> TRUE, device |-> 0]

C4_Witness ==
    /\ use_jumpbox
    /\ pc = "after_loop"
    /\ \E d \in Devices :
          /\ Succeeded(d)
          /\ LastRouted(d - 1) # 0
          /\ Succeeded(LastRouted(d - 1))
          /\ CallCount("connect_ssh", d) = 0
          /\ CallCount("connect_ssh", LastRouted(d - 1)) = 1

C6_ListOrder ==
    /\ idx \in 0..Len(device_list)
    /\ \A k \in 1..Len(calls) :
          /\ calls[k].dev <= idx
          /\ \A j \in 1..k : calls[k].dev = 0 \/ calls[j].dev <= calls[k].dev
          /\ calls[k].dev = 0 => k = Len(calls)
    /\ \A k \in 1..Len(logfile) :
          /\ logfile[k].dev \in 1..idx
          /\ \A j \in 1..k : logfile[j].dev <= logfile[k].dev
    /\ \A k \in 1..Len(outfiles) :
          /\ outfiles[k] \in 1..idx
          /\ \A j \in 1..k : outfiles[j] <= outfiles[k]

C6_Witness ==
    /\ pc = "done"
    /\ Len(device_list) = 2
    /\ \E op \in ConnectOps : Called(op, 1)
    /\ \E op \in ConnectOps : Called(op, 2)
    /\ LogCount(1) = 1
    /\ FileCount(2) = 1

\* C7: after an empty device list was imported, or an empty command entered,
\* the run has returned without error and no session call, jump-box prompt,
\* settings update, log line or output file was made.
C7_EmptyInputReturnsEarly ==
    ( \/ device_list = << >> /\ pc \notin {"start", "import"} /\ exc # "ScriptError"
      \/ send_cmd = "" ) =>
        /\ pc = "done"
        /\ exc = "none"
        /\ calls = << >>
        /\ \A k \in 1..Len(prompts) : prompts[k] = "command"
        /\ updates = << >>
        /\ logfile = << >>
        /\ outfiles = << >>
        /\ session = Disconnected
        /\ jumpbox = "unset" /\ j_username = "unset"
        /\ j_password = "unset" /\ j_ending = "unset"

C7_Witness ==
    /\ pc = "done"
    /\ send_cmd = ""
    /\ device_list # << >>
    /\ settings.use_jumpbox
    /\ settings.jumpbox_host = ""

C9_DeviceErrorNeverStopsRun ==
    (pc = "raised" /\ exc \in Errors) => calls[Len(calls)].dev = 0

\* C10 as stated: when the loop has run to the end of the list, every device
\* has had exactly one connection attempt: one connect in direct mode; in
\* jump mode a connect_ssh or a tunnel call, and neither more than once.
C10_OneAttemptPerDevice ==
    (pc = "done" /\ idx = Len(device_list)) =>
        \A d \in Devices :
            /\ \E op \in ConnectOps : Called(op, d)
            /\ \A op \in ConnectOps : CallCount(op, d) <= 1

----------------------------------------------------------------------------
JumpKeys == {"jumpbox_host", "jumpbox_user", "jumpbox_prompt_end"}

WorkSteps ==
    << "start_cisco_session", "create_output_filename",
       "write_output_to_file", "end_cisco_session" >>

WorkOps == {WorkSteps[k] : k \in 1..Len(WorkSteps)}

\* The calls per_device_work made for device d, in order.
WorkCalls(d) ==
    SelectSeq(calls, LAMBDA c : c.dev = d /\ c.op \in WorkOps)

\* A call made for device d after write_output_to_file raised.
LateError(d) ==
    \E e \in Errors :
        \/ HasCall("end_cisco_session", d, e)
        \/ HasCall("disconnect_via_jump", d, e)
        \/ ~use_jumpbox /\ HasCall("disconnect", d, e)

\* C11: only the jump-box section touches the settings store; there, with
\* use_jumpbox set, each of jumpbox_host, jumpbox_user and jumpbox_prompt_end
\* is prompted for and updated exactly when its stored value was missing and
\* is otherwise left as stored, the password is prompted once and is never
\* passed to settings.update nor stored; with use_jumpbox unset nothing is
\* prompted or updated.
C11_PasswordNeverStored ==
    [][ /\ pc # "jumpbox_section" =>
              /\ settings' = settings
              /\ updates' = updates
              /\ prompts' \in {prompts, Append(prompts, "command")}
        /\ pc = "jumpbox_section" =>
              /\ DOMAIN settings' = DOMAIN settings
              /\ settings'.use_jumpbox = settings.use_jumpbox
              /\ \A key \in JumpKeys :
                    LET upd == \E k \in 1..Len(updates') : updates'[k].key = key
                        asked == \E k \in 1..Len(prompts') :
                                     k > Len(prompts) /\ prompts'[k] = key
                    IN /\ upd <=> (settings.use_jumpbox /\ settings[key] = "")
                       /\ asked <=> upd
                       /\ ~upd => settings'[key] = settings[key]
                       /\ settings'[key] \notin PasswordAnswers
              /\ \A k \in 1..Len(updates') :
                    /\ updates'[k].key \in JumpKeys
                    /\ updates'[k].value # j_password'
                    /\ updates'[k].value = settings'[updates'[k].key]
                    /\ \A j \in 1..Len(updates') :
                          updates'[j].key = updates'[k].key => j = k
              /\ Cardinality({k \in 1..Len(prompts') :
                                 prompts'[k] = "jumpbox_password"})
                    = IF settings.use_jumpbox THEN 1 ELSE 0
              /\ settings.use_jumpbox => j_password' \in PasswordAnswers
              /\ ~settings.use_jumpbox =>
                    /\ prompts' = prompts
                    /\ updates' = updates
                    /\ settings' = settings
      ]_vars

C11_Witness ==
    /\ pc = "loop_init"
    /\ use_jumpbox
    /\ j_password \in PasswordAnswers
    /\ settings.jumpbox_host = "jb"
    /\ settings.jumpbox_user \in UserAnswers
    /\ updates = << [key |-> "jumpbox_user", value |-> settings.jumpbox_user],
                    [key |-> "jumpbox_prompt_end", value |-> settings.jumpbox_prompt_end] >>
    /\ prompts = << "command", "jumpbox_user", "jumpbox_password",
                    "jumpbox_prompt_end" >>

\* C12 as stated: in direct mode, whenever session.connect is about to be
\* called for a device the session is not connected.
C12_ConnectOnClosedSession ==
    pc = "direct_connect" => ~is_connected(session)

\* C13: for every device the calls of per_device_work are a prefix of
\* start_cisco_session, create_output_filename, write_output_to_file,
\* end_cisco_session, made only after the connection succeeded; a call that
\* raised is the last one of the unit, and its error is in the loop's
\* handler for that device until the handler has logged it.
C13_WorkUnitOrder ==
    /\ \A d \in Devices :
          LET w == WorkCalls(d)
          IN /\ Len(w) <= Len(WorkSteps)
             /\ \A k \in 1..Len(w) :
                   /\ w[k].op = WorkSteps[k]
                   /\ w[k].res \in Errors => k = Len(w)
             /\ Len(w) > 0 => ConnSucceeded(d)
             /\ (pc \in WorkOps /\ idx = d /\ Len(w) > 0) =>
                   /\ w[Len(w)].res = "ok"
                   /\ pc = WorkSteps[Len(w) + 1]
    /\ \A k \in 1..Len(calls) :
          (calls[k].op \in WorkOps /\ calls[k].res \in Errors) =>
              \/ /\ k = Len(calls)
                 /\ pc = Handler(use_jumpbox)
                 /\ exc = calls[k].res
                 /\ idx = calls[k].dev
              \/ LogCount(calls[k].dev) = 1

C13_Witness ==
    /\ pc \in {"jump_except", "direct_except"}
    /\ idx = 2
    /\ Len(WorkCalls(1)) = 4
    /\ Len(WorkCalls(2)) = 3
    /\ WorkCalls(2)[3] = CallRecord("write_output_to_file", 2, "InteractionError")

\* C14: with use_jumpbox unset only connect and disconnect are called to
\* open and close sessions; with use_jumpbox set connect is never called,
\* ssh_via_jump is called only for a protocol whose lower case contains
\* "ssh" and telnet_via_jump only for one whose lower case is "telnet", and
\* a device with such a protocol gets no other tunnel call.
C14_PathsNeverMixed ==
    \A k \in 1..Len(calls) :
        LET c == calls[k]
        IN /\ ~use_jumpbox =>
                 c.op \notin {"connect_ssh", "ssh_via_jump", "telnet_via_jump",
                              "disconnect_via_jump"}
           /\ use_jumpbox => c.op # "connect"
           /\ c.op = "ssh_via_jump" =>
                 device_list[c.dev] = <<"S", "S", "H", "2">>
           /\ c.op = "telnet_via_jump" =>
                 device_list[c.dev] = <<"T", "e", "l", "n", "e", "t">>

C14_Witness ==
    /\ use_jumpbox
    /\ pc = "done"
    /\ \E d \in Devices :
          device_list[d] = <<"S", "S", "H", "2">> /\ HasCall("ssh_via_jump", d, "ok")
    /\ \E d \in Devices :
          /\ device_list[d] = <<"T", "e", "l", "n", "e", "t">>
          /\ HasCall("telnet_via_jump", d, "ok")

\* C15: whenever the loop is between two devices or has just been left, the
\* flag jump_connected is up exactly when the jump-box session is; the flag
\* rises only in a step whose connect_ssh returned and falls only in a step
\* whose session.disconnect() returned; it is never up with use_jumpbox
\* unset; and the disconnect after the loop is called exactly when the
\* jump-box session is open.
C15_FlagTracksJumpSession ==
    [][ /\ pc \in {"for", "after_loop"} => (jump_connected <=> session.jump)
        /\ ~use_jumpbox => ~jump_connected /\ ~jump_connected'
        /\ (~jump_connected /\ jump_connected') =>
              /\ calls' = Append(calls, CallRecord("connect_ssh", idx, "ok"))
              /\ session'.jump
        /\ (jump_connected /\ ~jump_connected') =>
              /\ calls' = Append(calls, CallRecord("disconnect", idx, "ok"))
              /\ session' = Disconnected
        /\ pc = "after_loop" =>
              ((\E res \in Results :
                   calls' = Append(calls, CallRecord("disconnect", 0, res)))
               <=> session.jump)
      ]_vars

C15_Witness ==
    /\ use_jumpbox
    /\ pc = "after_loop"
    /\ jump_connected
    /\ session.jump
    /\ idx = 2
    /\ Failed(1)
    /\ HasCall("disconnect", 1, "ok")

====
